---- MODULE Spec2Model ----
(***************************************************************************)
(* Course discovery: the coordinator of discovery_factory.js (FilterSet,   *)
(* SearchState and the views wired through events) and the discovery       *)
(* model's parse / reset / latest, which merge a page of search results    *)
(* and its facet aggregation into courseCards and facetOptions.            *)
(***************************************************************************)
EXTENDS Integers, Sequences, FiniteSets, TLC

VARIABLES
    isVideosPage,   \* window.location.pathname === '/videos'
    urlParams,      \* window.location.search, parsed: [type, query, name]
    pageLoaded,     \* the DOM-ready callback onPageLoad has run
    filters,        \* Filters collection: sequence of [type, query, name]
    searchTerm,     \* SearchState: current free-text query
    terms,          \* SearchState: current filter terms (type -> query)
    page,           \* SearchState: pagination cursor
    inflight,       \* fetches issued and not yet answered
    nextId,         \* number of fetches issued so far
    lastIssued,     \* id of the newest performSearch/refineSearch fetch
    shownReq,       \* id of the fetch whose first page was merged last
    courseCards,    \* discovery.courseCards: sequence of documents
    facetOptions,   \* discovery.facetOptions: sequence of [facet, term, count]
    totalCount,     \* discovery attribute
    latestCount,    \* discovery attribute
    pageLog,        \* responses merged since the last reset, oldest first
    threw,          \* parse raised a TypeError in the last merge
    emptied,        \* the last reset() call found cards and options to empty
    loading,        \* the form's loading indicator is shown
    message,        \* the form's message: none, found, notfound, error
    errorMessage    \* SearchState.errorMessage

vars == <<isVideosPage, urlParams, pageLoaded, filters, searchTerm, terms, page,
          inflight, nextId, lastIssued, shownReq, courseCards, facetOptions,
          totalCount, latestCount, pageLog, threw, emptied, loading, message,
          errorMessage>>

coordVars == <<urlParams, pageLoaded, filters, searchTerm, terms, page, inflight,
               nextId, lastIssued, shownReq, loading, message, errorMessage>>

----------------------------------------------------------------------------
(* Bounds of the model.                                                    *)

\* Most pages merged between two resets.
MaxPages == 2

\* Most fetches the coordinator issues in one run.
MaxRequests == 3

\* Most fetches in flight at once.
MaxInflight == 2

----------------------------------------------------------------------------
(* Sequences.                                                              *)

Range(s) == {s[i] : i \in 1..Len(s)}

RECURSIVE SumSeq(_)
SumSeq(s) == IF s = <<>> THEN 0 ELSE Head(s) + SumSeq(Tail(s))

----------------------------------------------------------------------------
(* Terms and their order under Array.prototype.sort (code-unit order of    *)
(* the strings): the sequence lists every term of the model, ascending.    *)

TermOrder == <<"course", "cs", "math", "video">>

Terms == Range(TermOrder)

Rank(t) == CHOOSE i \in 1..Len(TermOrder) : TermOrder[i] = t

\* _.keys(obj.terms).sort(): the terms of S, ascending.
RECURSIVE SortTerms(_)
SortTerms(S) ==
    IF S = {} THEN <<>>
    ELSE LET least == CHOOSE t \in S : \A u \in S : Rank(t) <= Rank(u)
         IN  <<least>> \o SortTerms(S \ {least})

----------------------------------------------------------------------------
(* Documents. A facet attribute is a list of values: a scalar attribute is *)
(* the one-element list, a missing one the empty list.                     *)

DocA == [id |-> 1, course_type |-> "course", subject |-> <<"cs">>]
DocV == [id |-> 2, course_type |-> "video",  subject |-> <<"cs">>]
DocM == [id |-> 3, course_type |-> "course", subject |-> <<"math", "cs">>]

Docs == {DocA, DocV, DocM}

\* course.data[facetType], as the list of values the tally increments.
FacetValue(doc, facetType) ==
    IF facetType = "course_type"
    THEN IF doc.course_type = "" THEN <<>> ELSE <<doc.course_type>>
    ELSE IF facetType = "subject" THEN doc.subject
    ELSE <<>>

\* The route predicate of parse.
KeepCourse(doc, videos) ==
    IF videos THEN doc.course_type = "video" ELSE doc.course_type # "video"

\* courses.filter(...)
Survivors(courses, videos) ==
    LET Test(d) == KeepCourse(d, videos) IN SelectSeq(courses, Test)

----------------------------------------------------------------------------
(* Backbone collections.                                                   *)

\* Collection.add(models): a model whose id the collection holds is ignored.
RECURSIVE CardsAdd(_, _)
CardsAdd(cards, docs) ==
    IF docs = <<>> THEN cards
    ELSE IF \E i \in 1..Len(cards) : cards[i].id = Head(docs).id
         THEN CardsAdd(cards, Tail(docs))
         ELSE CardsAdd(Append(cards, Head(docs)), Tail(docs))

\* The identity of a FacetOption in its collection.
OptionKey(o) == <<o.facet, o.term>>

\* A collection that appends whatever it is given.
OptionsAddAppends(options, o) == Append(options, o)

\* options.add(option, {merge: true}): an option whose key is held takes the
\* new attributes in place, a new one goes to the end.
OptionsAdd(options, o) ==
    IF \E i \in 1..Len(options) : OptionKey(options[i]) = OptionKey(o)
    THEN [i \in 1..Len(options) |->
            IF OptionKey(options[i]) = OptionKey(o) THEN o ELSE options[i]]
    ELSE Append(options, o)

----------------------------------------------------------------------------
(* The facet summary of a response (response.aggs): the entries of the     *)
(* object in key order. An entry is an object with terms ("ok"), an object *)
(* without terms ("noterms") or null ("null").                             *)

NoTerms == [t \in {} |-> 0]

Entry(key, termCounts, total, other) ==
    [key |-> key, kind |-> "ok", terms |-> termCounts, total |-> total, other |-> other]

NullEntry(key) ==
    [key |-> key, kind |-> "null", terms |-> NoTerms, total |-> 0, other |-> 0]

NoTermsEntry(key) ==
    [key |-> key, kind |-> "noterms", terms |-> NoTerms, total |-> 0, other |-> 0]

\* if (facets.course_type): the entry is an object.
Truthy(entry) == entry.kind # "null"

\* "Remove unwanted facets": on /videos the course_type entry goes, elsewhere
\* its term video goes when its count is truthy.
StripEntryKept(entry, videos) ==
    ~(videos /\ entry.key = "course_type" /\ Truthy(entry))

StripTerms(entry, videos) ==
    IF /\ ~videos
       /\ entry.key = "course_type"
       /\ entry.kind = "ok"
       /\ "video" \in DOMAIN entry.terms
       /\ entry.terms["video"] # 0
    THEN [entry EXCEPT !.terms = [t \in DOMAIN entry.terms \ {"video"} |-> entry.terms[t]]]
    ELSE entry

StripFacets(facets, videos) ==
    LET Kept(e) == StripEntryKept(e, videos)
        kept == SelectSeq(facets, Kept)
    IN  [i \in 1..Len(kept) |-> StripTerms(kept[i], videos)]

\* The values of one facet over the surviving courses, in document order.
RECURSIVE ValuesOf(_, _)
ValuesOf(courses, facetType) ==
    IF courses = <<>> THEN <<>>
    ELSE FacetValue(Head(courses), facetType) \o ValuesOf(Tail(courses), facetType)

\* allFacets[facetType]: term -> occurrences among the surviving courses.
Tally(courses, facetType) ==
    LET vals == ValuesOf(courses, facetType)
    IN  [t \in Range(vals) |-> Cardinality({i \in 1..Len(vals) : vals[i] = t})]

\* The merge of one entry with its local tally throws when the entry has no
\* terms object and the tally has a term to add.
MergeThrows(entry, values) ==
    entry.kind = "noterms" /\ DOMAIN values # {}

\* A merge that overwrites the server's count with the local count.
MergeEntryOverwrites(entry, values) ==
    IF ~Truthy(entry)
    THEN Entry(entry.key, values,
               SumSeq([i \in 1..Len(SortTerms(DOMAIN values)) |->
                          values[SortTerms(DOMAIN values)[i]]]), 0)
    ELSE [entry EXCEPT !.terms =
            [t \in DOMAIN entry.terms \cup DOMAIN values |->
                IF t \notin DOMAIN values THEN entry.terms[t] ELSE values[t]]]

\* "Filter facets to include only those relevant to the displayed list".
MergeEntry(entry, values) ==
    IF ~Truthy(entry)
    THEN Entry(entry.key, values,
               SumSeq([i \in 1..Len(SortTerms(DOMAIN values)) |->
                          values[SortTerms(DOMAIN values)[i]]]), 0)
    ELSE [entry EXCEPT !.terms =
            [t \in DOMAIN entry.terms \cup DOMAIN values |->
                IF t \notin DOMAIN values THEN entry.terms[t]
                ELSE IF t \notin DOMAIN entry.terms \/ entry.terms[t] = 0
                     THEN values[t]
                     ELSE entry.terms[t] + values[t]]]

MergeFacets(facets, courses) ==
    [i \in 1..Len(facets) |-> MergeEntry(facets[i], Tally(courses, facets[i].key))]

\* One entry's options, in the order they are added.
EntryOptions(entry) ==
    LET sortedTerms == SortTerms(DOMAIN entry.terms)
    IN  [i \in 1..Len(sortedTerms) |->
            [facet |-> entry.key, term |-> sortedTerms[i], count |-> entry.terms[sortedTerms[i]]]]

RECURSIVE AllOptions(_)
AllOptions(facets) ==
    IF facets = <<>> THEN <<>>
    ELSE EntryOptions(Head(facets)) \o AllOptions(Tail(facets))

RECURSIVE Upsert(_, _)
Upsert(options, added) ==
    IF added = <<>> THEN options
    ELSE Upsert(OptionsAdd(options, Head(added)), Tail(added))

\* The discovery model as a record.
Discovery(cards, options, total, latest) ==
    [courseCards |-> cards, facetOptions |-> options,
     totalCount |-> total, latestCount |-> latest, threw |-> FALSE]

\* parse(response): the discovery model after it; threw when the facet merge
\* raised, which leaves the cards and counts set and the options untouched.
Parse(d, response, videos) ==
    LET courses  == Survivors(response.results, videos)
        stripped == StripFacets(response.aggs, videos)
        throws   == \E i \in 1..Len(stripped) :
                        MergeThrows(stripped[i], Tally(courses, stripped[i].key))
        merged   == MergeFacets(stripped, courses)
    IN  [courseCards  |-> CardsAdd(d.courseCards, courses),
         totalCount   |-> Len(courses),
         latestCount  |-> Len(courses),
         facetOptions |-> IF throws THEN d.facetOptions
                          ELSE Upsert(d.facetOptions, AllOptions(merged)),
         threw        |-> throws]

\* reset()
ResetDiscovery == Discovery(<<>>, <<>>, 0, 0)

\* latest(): courseCards.last(latestCount)
Latest(d) ==
    LET n == Len(d.courseCards)
        k == IF d.latestCount < n THEN d.latestCount ELSE n
    IN  SubSeq(d.courseCards, n - k + 1, n)

----------------------------------------------------------------------------
(* FilterSet: the Filters collection, keyed by the term's type.            *)

FilterTerm(type, query, name) == [type |-> type, query |-> query, name |-> name]

\* filters.get(type) is truthy
FiltersHas(fs, type) == \E i \in 1..Len(fs) : fs[i].type = type

\* An add that appends whatever it is given.
FiltersAddAppends(fs, term, merge) == Append(fs, term)

\* filters.add(term, {merge: merge}): a held category takes the new term in
\* place (the lenient policy, with or without merge), a new one goes last.
FiltersAdd(fs, term, merge) ==
    IF FiltersHas(fs, term.type)
    THEN [i \in 1..Len(fs) |-> IF fs[i].type = term.type THEN term ELSE fs[i]]
    ELSE Append(fs, term)

\* filters.remove(type): no-op when absent.
FiltersRemove(fs, type) ==
    LET Other(t) == t.type # type IN SelectSeq(fs, Other)

\* filters.reset()
FiltersReset == <<>>

\* filters.getTerms(): what is submitted to SearchState, in insertion order.
GetTerms(fs) == [i \in 1..Len(fs) |-> [type |-> fs[i].type, query |-> fs[i].query]]

\* quote(string)
\* A quote that leaves the string bare.
QuoteBare(string) == string

Quote(string) == "\"" \o string \o "\""

----------------------------------------------------------------------------
(* The whole state as a record, so that one handler can call another.      *)

State ==
    [filters |-> filters, searchTerm |-> searchTerm, terms |-> terms, page |-> page,
     inflight |-> inflight, nextId |-> nextId, lastIssued |-> lastIssued,
     shownReq |-> shownReq, courseCards |-> courseCards,
     facetOptions |-> facetOptions, totalCount |-> totalCount,
     latestCount |-> latestCount, pageLog |-> pageLog, threw |-> threw,
     emptied |-> emptied,
     loading |-> loading, message |-> message, errorMessage |-> errorMessage]

Becomes(s) ==
    /\ filters' = s.filters
    /\ searchTerm' = s.searchTerm
    /\ terms' = s.terms
    /\ page' = s.page
    /\ inflight' = s.inflight
    /\ nextId' = s.nextId
    /\ lastIssued' = s.lastIssued
    /\ shownReq' = s.shownReq
    /\ courseCards' = s.courseCards
    /\ facetOptions' = s.facetOptions
    /\ totalCount' = s.totalCount
    /\ latestCount' = s.latestCount
    /\ pageLog' = s.pageLog
    /\ threw' = s.threw
    /\ emptied' = s.emptied
    /\ loading' = s.loading
    /\ message' = s.message
    /\ errorMessage' = s.errorMessage

\* The discovery model held in a state, and a state with it replaced.
DiscoveryOf(s) ==
    [courseCards |-> s.courseCards, facetOptions |-> s.facetOptions,
     totalCount |-> s.totalCount, latestCount |-> s.latestCount, threw |-> s.threw]

WithDiscovery(s, d) ==
    [s EXCEPT !.courseCards = d.courseCards, !.facetOptions = d.facetOptions,
              !.totalCount = d.totalCount, !.latestCount = d.latestCount,
              !.threw = d.threw]

----------------------------------------------------------------------------
(* SearchState: the fetches. A fetch in flight is a record; the transport  *)
(* answers each once, in any order.                                        *)

Fetch(id, kind, query, fetchTerms, pageIndex) ==
    [id |-> id, kind |-> kind, query |-> query, terms |-> fetchTerms, page |-> pageIndex]

\* sendQuery: the fetch joins those in flight; an earlier one stays there.
SendQuery(s, kind, pageIndex) ==
    [s EXCEPT !.inflight = s.inflight \cup
                  {Fetch(s.nextId + 1, kind, s.searchTerm, s.terms, pageIndex)},
              !.nextId = s.nextId + 1,
              !.lastIssued = IF kind = "search" THEN s.nextId + 1 ELSE s.lastIssued]

\* performSearch(query, terms): cursor to the first page, first-page fetch.
PerformSearch(s, query, searchTerms) ==
    SendQuery([s EXCEPT !.searchTerm = query, !.terms = searchTerms, !.page = 0],
              "search", 0)

\* refineSearch(terms): the same with the query kept.
RefineSearch(s, searchTerms) ==
    SendQuery([s EXCEPT !.terms = searchTerms, !.page = 0], "search", 0)

\* loadNextPage(): a no-op while a fetch is pending.
\* A loadNextPage that fetches whether or not a fetch is pending.
LoadNextPageUnguarded(s) == SendQuery(s, "next", s.page + 1)

LoadNextPage(s) ==
    IF s.inflight # {} THEN s ELSE SendQuery(s, "next", s.page + 1)

----------------------------------------------------------------------------
(* The coordinator's handlers, as functions of the state.                  *)

Message(kind, total) == [kind |-> kind, total |-> total]

\* dispatcher.listenTo(form, 'search', ...)
FormSearch(s, query) ==
    LET s1 == [s EXCEPT !.filters = FiltersReset, !.loading = TRUE]
    IN  PerformSearch(s1, query, GetTerms(s1.filters))

\* form.doSearch(term): the form triggers 'search' with the term.
DoSearch(s, term) == FormSearch(s, term)

\* A removeFilter that refines whatever the chip, the query kept.
RemoveFilterAlwaysRefines(s, type) ==
    LET s1 == [s EXCEPT !.loading = TRUE, !.filters = FiltersRemove(s.filters, type)]
    IN  RefineSearch(s1, GetTerms(s1.filters))

\* removeFilter(type)
RemoveFilter(s, type) ==
    LET s1 == [s EXCEPT !.loading = TRUE, !.filters = FiltersRemove(s.filters, type)]
    IN  IF type = "search_query"
        THEN DoSearch(s1, "")
        ELSE RefineSearch(s1, GetTerms(s1.filters))

\* handleQueryParams refining with the terms read before the add.
HandleQueryParamsStaleTerms(s, type, query, name) ==
    LET s1 == [s EXCEPT !.loading = TRUE]
    IN  IF FiltersHas(s1.filters, type)
        THEN RemoveFilter(s1, type)
        ELSE LET s2 == [s1 EXCEPT !.filters =
                           FiltersAdd(s1.filters, FilterTerm(type, query, name), FALSE)]
             IN  RefineSearch(s2, GetTerms(s1.filters))

\* handleQueryParams(type, query, name)
HandleQueryParams(s, type, query, name) ==
    LET s1 == [s EXCEPT !.loading = TRUE]
    IN  IF FiltersHas(s1.filters, type)
        THEN RemoveFilter(s1, type)
        ELSE LET s2 == [s1 EXCEPT !.filters =
                           FiltersAdd(s1.filters, FilterTerm(type, query, name), FALSE)]
             IN  RefineSearch(s2, GetTerms(s2.filters))

\* A 'search' handler whose not-found path leaves the filters as they are.
OnSearchKeepsFilters(s, query, total) ==
    LET s1 == IF total > 0
              THEN [s EXCEPT !.message = Message("found", total),
                             !.filters = IF query # ""
                                         THEN FiltersAdd(s.filters,
                                                  FilterTerm("search_query", query, Quote(query)),
                                                  TRUE)
                                         ELSE s.filters]
              ELSE [s EXCEPT !.message = Message("notfound", 0)]
    IN  [s1 EXCEPT !.loading = FALSE]

\* dispatcher.listenTo(search, 'search', function(query, total) ...)
OnSearch(s, query, total) ==
    LET s1 == IF total > 0
              THEN [s EXCEPT !.message = Message("found", total),
                             !.filters = IF query # ""
                                         THEN FiltersAdd(s.filters,
                                                  FilterTerm("search_query", query, Quote(query)),
                                                  TRUE)
                                         ELSE s.filters]
              ELSE [s EXCEPT !.message = Message("notfound", 0),
                             !.filters = FiltersReset]
    IN  [s1 EXCEPT !.loading = FALSE]

\* An 'error' handler that clears the filters as the not-found path does.
OnErrorResetsFilters(s) ==
    [s EXCEPT !.message = Message("error", 0), !.filters = FiltersReset,
              !.loading = FALSE]

\* dispatcher.listenTo(search, 'error', ...)
OnError(s) ==
    [s EXCEPT !.message = Message("error", 0), !.loading = FALSE]

\* The success of a first-page fetch: the collections are replaced by the page.
MergeFirstPage(s, response, videos) ==
    [WithDiscovery(s, Parse(ResetDiscovery, response, videos))
        EXCEPT !.pageLog = <<response>>]

\* The success of a next-page fetch: the page is appended.
MergeNextPage(s, response, videos) ==
    [WithDiscovery(s, Parse(DiscoveryOf(s), response, videos))
        EXCEPT !.pageLog = Append(s.pageLog, response)]

\* A fetch answered with a response. A first page triggers 'search' with the
\* current query and the total, a next page moves the cursor and triggers
\* 'next'. When parse throws no event is triggered.
FetchDone(s, fetch, response, videos) ==
    IF fetch.kind = "search"
    THEN LET s1 == [MergeFirstPage(s, response, videos) EXCEPT !.shownReq = fetch.id]
         IN  IF s1.threw THEN s1 ELSE OnSearch(s1, s1.searchTerm, s1.totalCount)
    ELSE LET s1 == MergeNextPage(s, response, videos)
         IN  IF s1.threw THEN s1 ELSE [s1 EXCEPT !.page = fetch.page]

\* A fetch that failed: the message is stored and 'error' is triggered.
FetchFailed(s) ==
    OnError([s EXCEPT !.errorMessage = "error"])

----------------------------------------------------------------------------
(* What the transport answers: a page of documents, the facet summary and  *)
(* the server's count of all matching documents.                           *)

Response(results, aggs, total) == [results |-> results, aggs |-> aggs, total |-> total]

Pages == {<<DocA>>, <<DocV>>, <<DocA, DocV>>, <<DocM, DocA>>}

Aggs ==
    { <<>>,
      <<Entry("subject", "cs" :> 2, 2, 0)>>,
      <<Entry("subject", "math" :> 1 @@ "cs" :> 1, 2, 0),
        Entry("course_type", "video" :> 1 @@ "course" :> 1, 2, 0)>>,
      <<Entry("course_type", "video" :> 0 @@ "course" :> 1, 1, 0)>>,
      <<Entry("subject", "math" :> 1, 1, 0)>>,
      <<NullEntry("subject")>>,
      <<NullEntry("course_type")>>,
      <<NoTermsEntry("subject")>> }

\* The server's total is the page's length or more; an empty result set has
\* no page, no summary and total 0.
Responses ==
    {Response(p, a, Len(p) + more) : p \in Pages, a \in Aggs, more \in {0, 1}}
        \cup {Response(<<>>, <<>>, 0)}

\* The answers of the transport in the coordinator's runs.
SearchResponses ==
    { Response(<<>>, <<>>, 0),
      Response(<<DocA, DocV>>, <<Entry("subject", "cs" :> 2, 2, 0)>>, 3),
      Response(<<DocM, DocA>>,
               <<Entry("subject", "math" :> 1 @@ "cs" :> 1, 2, 0),
                 Entry("course_type", "video" :> 1 @@ "course" :> 1, 2, 0)>>, 2) }

Queries == {"", "python"}

NoParams == [type |-> "", query |-> "", name |-> ""]

UrlChoices ==
    { NoParams,
      [type |-> "subject", query |-> "cs", name |-> "Computer Science"],
      [type |-> "subject", query |-> "cs", name |-> ""] }

----------------------------------------------------------------------------
(* The state after construction: the collaborators are created and         *)
(* form.doSearch(searchQuery) has issued the first fetch.                  *)

Blank ==
    [filters |-> <<>>, searchTerm |-> "", terms |-> <<>>, page |-> 0,
     inflight |-> {}, nextId |-> 0, lastIssued |-> 0, shownReq |-> 0,
     courseCards |-> <<>>, facetOptions |-> <<>>, totalCount |-> 0,
     latestCount |-> 0, pageLog |-> <<>>, threw |-> FALSE, emptied |-> FALSE,
     loading |-> FALSE, message |-> Message("none", 0), errorMessage |-> ""]

Init ==
    /\ isVideosPage \in BOOLEAN
    /\ urlParams \in UrlChoices
    /\ pageLoaded = FALSE
    /\ \E searchQuery \in Queries :
          LET s == DoSearch(Blank, searchQuery)
          IN  /\ filters = s.filters
              /\ searchTerm = s.searchTerm
              /\ terms = s.terms
              /\ page = s.page
              /\ inflight = s.inflight
              /\ nextId = s.nextId
              /\ lastIssued = s.lastIssued
              /\ shownReq = s.shownReq
              /\ courseCards = s.courseCards
              /\ facetOptions = s.facetOptions
              /\ totalCount = s.totalCount
              /\ latestCount = s.latestCount
              /\ pageLog = s.pageLog
              /\ threw = s.threw
              /\ emptied = s.emptied
              /\ loading = s.loading
              /\ message = s.message
              /\ errorMessage = s.errorMessage

\* A handler that issues a fetch runs while the model's bounds allow one more.
CanSend == nextId < MaxRequests /\ Cardinality(inflight) < MaxInflight

Fixed == UNCHANGED <<isVideosPage, urlParams>>

----------------------------------------------------------------------------
(* The coordinator's events.                                               *)

\* The user submits a free-text search.
SubmitSearch ==
    \E query \in Queries :
        /\ CanSend
        /\ Becomes(FormSearch(State, query))
        /\ UNCHANGED pageLoaded
        /\ Fixed

\* The user selects an option of the refinement sidebar.
SelectOptionAt(i) ==
    /\ CanSend
    /\ Becomes(HandleQueryParams(State, facetOptions[i].facet,
                                 facetOptions[i].term, facetOptions[i].term))
    /\ UNCHANGED pageLoaded
    /\ Fixed

SelectOption == \E i \in 1..Len(facetOptions) : SelectOptionAt(i)

\* The user clears one chip of the filter bar.
ClearFilterAt(i) ==
    /\ CanSend
    /\ Becomes(RemoveFilter(State, filters[i].type))
    /\ UNCHANGED pageLoaded
    /\ Fixed

ClearFilter == \E i \in 1..Len(filters) : ClearFilterAt(i)

\* The user clears all filters.
ClearAll ==
    /\ CanSend
    /\ Becomes(DoSearch(State, ""))
    /\ UNCHANGED pageLoaded
    /\ Fixed

\* The listing asks for the next page.
ListingNext ==
    /\ nextId < MaxRequests
    /\ page + 1 < MaxPages
    /\ Becomes(LoadNextPage(State))
    /\ UNCHANGED pageLoaded
    /\ Fixed

\* The transport answers a fetch.
FetchSuccess ==
    \E fetch \in inflight, response \in SearchResponses :
        /\ Becomes(FetchDone([State EXCEPT !.inflight = inflight \ {fetch}],
                             fetch, response, isVideosPage))
        /\ UNCHANGED pageLoaded
        /\ Fixed

\* The transport fails a fetch.
FetchError ==
    \E fetch \in inflight :
        /\ Becomes(FetchFailed([State EXCEPT !.inflight = inflight \ {fetch}]))
        /\ UNCHANGED pageLoaded
        /\ Fixed

\* An onPageLoad that asks for type and query only.
OnPageLoadIgnoresName ==
    /\ ~pageLoaded
    /\ pageLoaded' = TRUE
    /\ IF urlParams.type # "" /\ urlParams.query # ""
       THEN /\ CanSend
            /\ Becomes(HandleQueryParams(State, urlParams.type, urlParams.query,
                                         urlParams.name))
       ELSE Becomes(State)
    /\ Fixed

\* onPageLoad, once, when the DOM is ready.
OnPageLoad ==
    /\ ~pageLoaded
    /\ pageLoaded' = TRUE
    /\ IF urlParams.type # "" /\ urlParams.query # "" /\ urlParams.name # ""
       THEN /\ CanSend
            /\ Becomes(HandleQueryParams(State, urlParams.type, urlParams.query,
                                         urlParams.name))
       ELSE Becomes(State)
    /\ Fixed

Next ==
    \/ SubmitSearch
    \/ SelectOption
    \/ ClearFilter
    \/ ClearAll
    \/ ListingNext
    \/ FetchSuccess
    \/ FetchError
    \/ OnPageLoad

Spec == Init /\ [][Next]_vars

----------------------------------------------------------------------------
(* The merge alone: pages of every response of the model merged into the   *)
(* discovery model, with the coordinator at rest. A first page is merged   *)
(* from the reset state, where the replacement of the collections by the   *)
(* page is the merge of the page into empty collections.                   *)

InitMerge ==
    /\ Init
    /\ urlParams = NoParams
    /\ searchTerm = ""

Rest == UNCHANGED pageLoaded /\ Fixed

FirstPage ==
    \E response \in Responses :
        /\ pageLog = <<>>
        /\ Becomes(MergeFirstPage(State, response, isVideosPage))
        /\ Rest

NextPage ==
    \E response \in Responses :
        /\ pageLog # <<>>
        /\ Len(pageLog) < MaxPages
        /\ Becomes(MergeNextPage(State, response, isVideosPage))
        /\ Rest

\* A reset() that forgets facetOptions.
ResetKeepsOptions ==
    /\ Becomes([State EXCEPT !.courseCards = <<>>, !.totalCount = 0,
                             !.latestCount = 0, !.threw = FALSE, !.pageLog = <<>>,
                             !.emptied = courseCards # <<>> /\ facetOptions # <<>>])
    /\ Rest

\* search.discovery.reset()
Reset ==
    /\ Becomes([WithDiscovery(State, ResetDiscovery)
                    EXCEPT !.pageLog = <<>>,
                           !.emptied = courseCards # <<>> /\ facetOptions # <<>>])
    /\ Rest

NextMerge == FirstPage \/ NextPage \/ Reset

SpecMerge == InitMerge /\ [][NextMerge]_vars

----------------------------------------------------------------------------
(* Claims.                                                                 *)

\* The step answers fetch f: f leaves the fetches in flight.
Answers(f) == f \in inflight /\ inflight' = inflight \ {f}

\* What the listing, the sidebar and the filter bar show.
Shown == <<courseCards, facetOptions, totalCount, latestCount, filters>>

\* C1: once the result of the most recently issued performSearch/refineSearch
\* is shown, the late response of a fetch issued before it changes nothing of
\* the cards, the facet options, the counts and the filter chips: the stale
\* response is cancelled or ignored.
C1_StaleResponseIgnored ==
    [][\A f \in inflight :
          (Answers(f) /\ f.id < lastIssued /\ shownReq = lastIssued)
              => UNCHANGED Shown]_vars


\* The discovery model's collections and counts.
discoveryVars == <<courseCards, facetOptions, totalCount, latestCount>>

\* C2: a fetch that fails leaves courseCards, facetOptions, totalCount and
\* latestCount as they were before the call: neither issuing the fetch nor its
\* failure changes them, and the failure changes nothing but the message shown
\* (the stored error message) and the loading indicator, which is hidden.
C2_FailedFetchChangesNothing ==
    [][/\ (nextId' # nextId) => UNCHANGED discoveryVars
       /\ FetchError =>
            /\ UNCHANGED discoveryVars
            /\ UNCHANGED <<filters, searchTerm, terms, page, pageLog, threw>>
            /\ message'.kind = "error"
            /\ errorMessage' # ""
            /\ ~loading']_vars

\* C2's case: a fetch has failed while cards and facet options were shown.
C2_Witness ==
    /\ message.kind = "error"
    /\ ~loading
    /\ courseCards # <<>>
    /\ facetOptions # <<>>
    /\ totalCount > 0


\* The k-th page merged since the reset: its surviving documents, the options
\* its merge upserts, and whether its merge throws.
PageCourses(k) == Survivors(pageLog[k].results, isVideosPage)

PageOptions(k) ==
    AllOptions(MergeFacets(StripFacets(pageLog[k].aggs, isVideosPage), PageCourses(k)))

PageThrows(k) == Parse(ResetDiscovery, pageLog[k], isVideosPage).threw

\* The occurrences of a term of a category among the k-th page's surviving
\* documents (a multi-valued attribute counts once per value).
Occurrences(k, facet, term) ==
    LET vals == ValuesOf(PageCourses(k), facet)
    IN  Cardinality({i \in 1..Len(vals) : vals[i] = term})

\* C3: after page 1 and page 2 are merged with no reset between them, every
\* (category, term) present in both pages (the category in both summaries, the
\* term among the surviving documents of both) has a FacetOption whose count
\* is the sum of the term's occurrences across the surviving documents of
\* both pages.
C3_CountAdditiveAcrossPages ==
    (Len(pageLog) = 2 /\ ~PageThrows(1) /\ ~PageThrows(2)) =>
        \A o1 \in Range(PageOptions(1)), o2 \in Range(PageOptions(2)) :
            ( /\ OptionKey(o1) = OptionKey(o2)
              /\ Occurrences(1, o1.facet, o1.term) > 0
              /\ Occurrences(2, o1.facet, o1.term) > 0 ) =>
                \E o \in Range(facetOptions) :
                    /\ OptionKey(o) = OptionKey(o1)
                    /\ o.count = Occurrences(1, o.facet, o.term)
                                 + Occurrences(2, o.facet, o.term)

\* C4: on a first page merged from the reset state with the 'exclude video'
\* predicate, latestCount is the number of non-video documents of the page,
\* courseCards holds exactly those documents, and every FacetOption's count is
\* the number of surviving documents carrying its term, not the server's count.
C4_FirstPageRecomputedCounts ==
    (Len(pageLog) = 1 /\ ~isVideosPage /\ ~threw) =>
        LET NonVideo(d) == d.course_type # "video"
            kept == SelectSeq(pageLog[1].results, NonVideo)
        IN  /\ latestCount = Len(kept)
            /\ courseCards = kept
            /\ \A o \in Range(facetOptions) :
                  o.count = Occurrences(1, o.facet, o.term)

\* C5: after every page merge latestCount is the number of cards the merge
\* appended to courseCards, and latest() is exactly those cards, in order.
C5_LatestCountIsAppended ==
    [][(pageLog' # pageLog /\ pageLog' # <<>>) =>
          LET base == IF Len(pageLog') = 1 THEN 0 ELSE Len(courseCards)
          IN  /\ latestCount' = Len(courseCards') - base
              /\ Latest([courseCards |-> courseCards', latestCount |-> latestCount'])
                    = SubSeq(courseCards', base + 1, Len(courseCards'))]_vars

\* C6: after a successful first-page merge totalCount is the server's reported
\* cardinality, taken before the predicate, and that value is what the
\* 'search' event carries: it selects the found path (shown with that count)
\* exactly when it is above zero.
C6_TotalCountIsServerTotal ==
    [][(shownReq' # shownReq /\ ~threw') =>
          /\ totalCount' = pageLog'[1].total
          /\ (message'.kind = "found") = (pageLog'[1].total > 0)
          /\ message'.kind = "found" => message'.total = pageLog'[1].total]_vars

\* C7: after every merge the FacetOptions of each category stand in
\* facetOptions in ascending order of term.
C7_TermsAscending ==
    \A i, j \in 1..Len(facetOptions) :
        (i < j /\ facetOptions[i].facet = facetOptions[j].facet) =>
            Rank(facetOptions[i].term) < Rank(facetOptions[j].term)


OptionKeys == {OptionKey(facetOptions[i]) : i \in 1..Len(facetOptions)}

\* C8: facetOptions never holds two FacetOptions of one (facet, term) pair,
\* and a step that removes an option is a reset: the merge of a page into
\* collections that were not reset keeps every (facet, term) it found.
C8_OptionsUniqueNeverRemoved ==
    [][/\ Cardinality(OptionKeys') = Len(facetOptions')
       /\ ~(OptionKeys \subseteq OptionKeys') => Len(pageLog') <= 1]_vars

\* C8's case: a second page was merged over options the first page left, one
\* of them upserted again.
C8_Witness ==
    /\ Len(pageLog) = 2
    /\ Len(facetOptions) >= 2
    /\ ~PageThrows(1) /\ ~PageThrows(2)
    /\ \E o1 \in Range(PageOptions(1)), o2 \in Range(PageOptions(2)) :
          OptionKey(o1) = OptionKey(o2) /\ o1.count # o2.count

HeldTypes == {filters[i].type : i \in 1..Len(filters)}

\* C9: the FilterSet holds each category at most once, and getTerms() gives
\* exactly the held categories, each once.
C9_FilterCategoriesOnce ==
    LET got == GetTerms(filters)
    IN  /\ Cardinality(HeldTypes) = Len(filters)
        /\ {got[i].type : i \in 1..Len(got)} = HeldTypes
        /\ \A type \in HeldTypes :
              Cardinality({i \in 1..Len(got) : got[i].type = type}) = 1

\* C9's case: the search_query term was added with merge over a held
\* search_query term, beside a refinement term added without it.
C9_Witness ==
    /\ FiltersHas(filters, "search_query")
    /\ FiltersHas(filters, "subject")
    /\ message.kind = "found"
    /\ shownReq >= 2
    /\ inflight = {}

\* C10: selecting a refinement whose category is not active adds the term to
\* the FilterSet and issues refineSearch (the query kept) with the term among
\* its terms; selecting one whose category is active removes the category and
\* issues a search whose terms do not hold it.
C10_SelectRefinement ==
    [][\A i \in 1..Len(facetOptions) :
          SelectOptionAt(i) =>
              LET type   == facetOptions[i].facet
                  query  == facetOptions[i].term
                  newest == CHOOSE f \in inflight' : f.id = nextId'
              IN  /\ nextId' = nextId + 1
                  /\ newest \notin inflight
                  /\ newest.kind = "search"
                  /\ IF ~FiltersHas(filters, type)
                     THEN /\ FilterTerm(type, query, query) \in Range(filters')
                          /\ [type |-> type, query |-> query] \in Range(newest.terms)
                          /\ newest.terms = GetTerms(filters')
                          /\ newest.query = searchTerm
                     ELSE /\ ~FiltersHas(filters', type)
                          /\ \A t \in Range(newest.terms) : t.type # type]_vars

\* C10's case: a refinement was selected and its refineSearch is in flight.
C10_Witness ==
    /\ loading
    /\ FiltersHas(filters, "subject")
    /\ \E f \in inflight :
          /\ f.id = nextId
          /\ f.kind = "search"
          /\ [type |-> "subject", query |-> "cs"] \in Range(f.terms)
          /\ f.query = "python"


\* C11: when a 'search' event arrives with totalCount 0 the not-found message
\* is shown, not the found message, and the FilterSet is empty when the
\* handler finishes, whatever filters were active before.
C11_NotFoundClearsFilters ==
    [][(shownReq' # shownReq /\ ~threw' /\ totalCount' = 0) =>
          /\ message'.kind = "notfound"
          /\ message'.kind # "found"
          /\ filters' = <<>>
          /\ GetTerms(filters') = <<>>]_vars

\* C11's case: a refinement with active terms was answered with no result,
\* and the FilterSet that held those terms is empty.
C11_Witness ==
    /\ message.kind = "notfound"
    /\ filters = <<>>
    /\ terms # <<>>
    /\ shownReq = lastIssued
    /\ totalCount = 0
    /\ inflight = {}


\* C12: loadNextPage is a no-op while a fetch is pending: a 'next' request
\* that arrives while a fetch is in flight starts no fetch, so a fetch issued
\* while another is in flight is never a page fetch, at most one page fetch
\* is in flight, and the page a pending page fetch will append lies beyond
\* the cursor: no page is appended to courseCards twice.
C12_NextPageNotConcurrent ==
    [][/\ (ListingNext /\ inflight # {}) =>
             /\ UNCHANGED <<inflight, nextId, page>>
             /\ UNCHANGED discoveryVars
       /\ (inflight # {} /\ nextId' # nextId) =>
             \A f \in inflight' \ inflight : f.kind = "search"
       /\ Cardinality({f \in inflight' : f.kind = "next"}) <= 1
       /\ \A f \in inflight' : f.kind = "next" => f.page > page']_vars

\* C12's case: a page fetch is in flight and the listing can ask for the
\* next page again.
C12_Witness ==
    /\ \E f \in inflight : f.kind = "next" /\ f.page = page + 1
    /\ nextId < MaxRequests
    /\ page + 1 < MaxPages
    /\ courseCards # <<>>


\* C13: reset() sets totalCount and latestCount to 0 and empties courseCards
\* and facetOptions, from every reachable state of the discovery model.
C13_ResetEmptiesModel ==
    [][Reset =>
          /\ totalCount' = 0
          /\ latestCount' = 0
          /\ courseCards' = <<>>
          /\ facetOptions' = <<>>
          /\ Latest([courseCards |-> courseCards', latestCount |-> latestCount']) = <<>>]_vars

\* C13's case: reset() was called on a model that held cards and options,
\* and the model is empty.
C13_Witness ==
    /\ emptied
    /\ courseCards = <<>>
    /\ facetOptions = <<>>
    /\ totalCount = 0
    /\ latestCount = 0


\* The sum of the occurrences, among the k-th page's surviving documents, of
\* the terms of a set.
RECURSIVE SumOccurrences(_, _, _)
SumOccurrences(k, facet, termSet) ==
    IF termSet = {} THEN 0
    ELSE LET t == CHOOSE x \in termSet : TRUE
         IN  Occurrences(k, facet, t) + SumOccurrences(k, facet, termSet \ {t})

C15_ExcludedFacetNeverUpserted ==
    \A o \in Range(facetOptions) :
        /\ isVideosPage => o.facet # "course_type"
        /\ ~isVideosPage => ~(o.facet = "course_type" /\ o.term = "video")


\* An aggregation payload that is missing or malformed: no summary at all, or
\* a category whose entry is null or has no terms.
Malformed(aggs) ==
    aggs = <<>> \/ \E i \in 1..Len(aggs) : aggs[i].kind # "ok"

\* C16: a missing or malformed aggregation payload is never fatal: the merge
\* completes, the surviving documents are appended to courseCards, the counts
\* are set, and the facet options are those recomputed from the surviving
\* documents alone.
C16_MalformedAggsNotFatal ==
    (Len(pageLog) = 1 /\ Malformed(pageLog[1].aggs)) =>
        /\ ~threw
        /\ courseCards = PageCourses(1)
        /\ latestCount = Len(PageCourses(1))
        /\ \A o \in Range(facetOptions) : o.count = Occurrences(1, o.facet, o.term)


\* The fetch a step has issued.
Newest == CHOOSE f \in inflight' : f.id = nextId'

\* A fresh search with an empty query, an empty FilterSet and no terms.
FreshEmptySearch ==
    /\ nextId' = nextId + 1
    /\ Newest \notin inflight
    /\ Newest.kind = "search"
    /\ Newest.query = ""
    /\ Newest.terms = <<>>
    /\ Newest.page = 0
    /\ filters' = <<>>
    /\ searchTerm' = ""

\* C17: clearing the chip of a category other than search_query removes that
\* category alone from the FilterSet and issues refineSearch, the query kept,
\* with exactly the remaining terms; clearing the search_query chip, or
\* clearing all, runs a fresh search with an empty query, issued with an
\* empty FilterSet and an empty term list.
C17_ClearFilters ==
    [][/\ \A i \in 1..Len(filters) :
             ClearFilterAt(i) =>
                 IF filters[i].type # "search_query"
                 THEN LET Others(t) == t.type # filters[i].type
                      IN  /\ filters' = SelectSeq(filters, Others)
                          /\ Len(filters') = Len(filters) - 1
                          /\ nextId' = nextId + 1
                          /\ Newest \notin inflight
                          /\ Newest.kind = "search"
                          /\ Newest.query = searchTerm
                          /\ Newest.terms =
                                [j \in 1..Len(filters') |->
                                    [type |-> filters'[j].type, query |-> filters'[j].query]]
                 ELSE FreshEmptySearch
       /\ ClearAll => FreshEmptySearch]_vars

\* C17's case: the chip of a refinement was cleared beside the search_query
\* chip, and the search in flight carries the search_query term alone.
C17_Witness ==
    /\ loading
    /\ Len(filters) = 1
    /\ filters[1].type = "search_query"
    /\ \E f \in inflight :
          /\ f.id = nextId
          /\ f.kind = "search"
          /\ f.query = "python"
          /\ f.terms = <<[type |-> "search_query", query |-> "python"]>>


\* C18: when a 'search' event arrives with totalCount above 0 and a
\* non-empty query, the FilterSet afterwards holds exactly one search_query
\* term, whose query is that query and whose name is the query in double
\* quotes, and every other filter is as it was; with totalCount above 0 and
\* an empty query the FilterSet is unchanged.
C18_FoundUpsertsSearchQuery ==
    [][(shownReq' # shownReq /\ ~threw' /\ totalCount' > 0) =>
          LET Others(t) == t.type # "search_query"
              Own(t)    == t.type = "search_query"
          IN  IF searchTerm # ""
              THEN /\ SelectSeq(filters', Own) =
                         <<[type  |-> "search_query", query |-> searchTerm,
                            name  |-> "\"" \o searchTerm \o "\""]>>
                   /\ SelectSeq(filters', Others) = SelectSeq(filters, Others)
                   /\ \A t \in Range(filters') : t.type = "search_query" => t.name = "\"python\""
              ELSE filters' = filters]_vars

\* C18's case: a 'search' with results arrived for the query python while a
\* refinement was active: the quoted search_query chip stands beside it.
C18_Witness ==
    /\ message.kind = "found"
    /\ ~loading
    /\ shownReq = lastIssued
    /\ searchTerm = "python"
    /\ FilterTerm("search_query", "python", "\"python\"") \in Range(filters)
    /\ \E t \in Range(filters) : t.type = "subject"
    /\ Len(filters) = 2


\* The URL carries type, query and name, none of them empty.
BootstrapGiven ==
    urlParams.type # "" /\ urlParams.query # "" /\ urlParams.name # ""

BootstrapTerm == FilterTerm(urlParams.type, urlParams.query, urlParams.name)

\* The startup fetches, the initial search and the bootstrap's refineSearch,
\* were issued and answered, and nothing else was issued.
StartupDone ==
    pageLoaded /\ BootstrapGiven /\ nextId = 2 /\ inflight = {}

\* C19: when the URL carries type, query and name, once the startup fetches
\* have completed the FilterSet holds the bootstrap term.
C19_BootstrapTermHeld ==
    StartupDone => BootstrapTerm \in Range(filters)

\* C19 as the code has it: at startup, with type, query and name given, the
\* bootstrap adds the term and issues refineSearch with it, as a click does,
\* and the term then stays in the FilterSet until a 'search' event arrives
\* with totalCount 0, which empties the FilterSet; with a parameter missing no
\* fetch is issued and the FilterSet is not touched.
C19_BootstrapRefines ==
    [][/\ (pageLoaded' /\ ~pageLoaded /\ BootstrapGiven /\ nextId = 1) =>
             /\ BootstrapTerm \in Range(filters')
             /\ nextId' = 2
             /\ Newest \notin inflight
             /\ Newest.kind = "search"
             /\ Newest.query = searchTerm
             /\ Newest.terms = GetTerms(filters')
             /\ [type |-> urlParams.type, query |-> urlParams.query] \in Range(Newest.terms)
             /\ loading'
       /\ (pageLoaded' /\ ~pageLoaded /\ ~BootstrapGiven) =>
             UNCHANGED <<filters, inflight, nextId, terms, searchTerm, loading>>
       /\ ( /\ pageLoaded /\ BootstrapGiven /\ nextId = 2 /\ nextId' = 2
            /\ BootstrapTerm \in Range(filters)
            /\ ~(shownReq' # shownReq /\ totalCount' = 0) ) =>
             BootstrapTerm \in Range(filters')]_vars

\* C19's case: both startup fetches were answered with results and the
\* bootstrap term is held.
C19_Witness ==
    /\ StartupDone
    /\ BootstrapTerm \in Range(filters)
    /\ message.kind = "found"
    /\ shownReq = 2


\* C20: while a search or refine fetch issued by the coordinator is in flight
\* the loading indicator is shown, and once no fetch is outstanding, each
\* having completed with 'search' or 'error', the indicator is hidden; in
\* every interleaving, a second request issued before the first is answered
\* included.
C20_LoadingIndicatorConsistent ==
    /\ (\E f \in inflight : f.kind = "search") => loading
    /\ (inflight = {} /\ ~threw) => ~loading

====
